---- MODULE Spec2Model ----
(***************************************************************************)
(* Event-stream subscription of firebasedb (streaming.go).                 *)
(*                                                                         *)
(* One Subscription: the producer goroutine (bufio line reader, frame      *)
(* decoder, keep-alive filter, auth_revoked renewal and reconnect), the    *)
(* dispatch loop (pending queue, select over fetchEvent / closing /        *)
(* events), the consumer receiving from Events(), the caller of Close(),   *)
(* and the server writing frames on the transport.                         *)
(***************************************************************************)
EXTENDS Integers, Sequences, FiniteSets, TLC

\* ------------------------------------------------------------------------
\* Bounds of the model
\* ------------------------------------------------------------------------
MaxFrames == 3      \* frames the server writes during one run
MaxConn   == 3      \* transports opened during one run
MaxClose  == 2      \* calls of Close() during one run
MaxLines  == 4      \* lines buffered when the decoder is checked on its own
MaxRefs   == 4      \* Reference values the caller builds

Nil == 0            \* nil io.ReadCloser / failed Subscribe
Conns == 1..MaxConn

\* ------------------------------------------------------------------------
\* Lines and events
\* ------------------------------------------------------------------------
\* A line after strings.Trim(line, " \r\n"): its prefix, and what is left
\* once the prefix is removed (the kind of an event: line, the JSON of a
\* data: line, identified by the number of the frame).
EventLine(k) == [pre |-> "event:", kind |-> k,  id |-> 0]
DataLine(n)  == [pre |-> "data:",  kind |-> "", id |-> n]
JunkLine(n)  == [pre |-> "junk",   kind |-> "", id |-> n]
BlankLine(n) == [pre |-> "",       kind |-> "", id |-> n]
EmptyString  == BlankLine(0)

HasPrefix(line, p) == line.pre = p
IsEmpty(line) == line.pre = ""

NoErr       == "nil"
ErrFirst    == "First line does not start with event:"
ErrSecond   == "Second line does not start with data:"
ErrBody     == "Badly formated body"
ErrRenew    == "renew failed"
ErrStatic   == "Can't renew a static token"
ErrOpen     == "error while executing the request"
ErrClose    == "close failed"

Event(t, d, e) == [Type |-> t, data |-> d, Err |-> e]
ErrEvent(e)    == [Type |-> "", data |-> 0, Err |-> e]
NoEvent        == [Type |-> "", data |-> 0, Err |-> NoErr]

Kinds  == {"put", "keep-alive", "auth_revoked"}
Shapes == {"badFirst", "short"}
Auths  == {"none", "Secret", "renewing"}

\* The References a Subscription is made from: the flags, the Authenticator
\* and the location. Nothing in the stream reads the retry flag.
References ==
  [passKeepAlive : BOOLEAN, retry : {FALSE}, auth : Auths, url : {"live"}]

\* The lines of one frame as the server writes it.
FrameLines(kind, shape, n) ==
  CASE shape = "ok"       -> << EventLine(kind), DataLine(n), BlankLine(n) >>
    [] shape = "badFirst" -> << JunkLine(n), DataLine(n), BlankLine(n) >>
    [] shape = "short"    -> << EventLine(kind), BlankLine(n) >>

VARIABLES
  reference,      \* Reference: passKeepAlive flag and Authenticator
  sub,            \* "new" before Subscribe(), then "open" or "failed"
  open,           \* transports opened by the client and not closed by it
  srvClosed,      \* transports the server has closed
  wire,           \* wire[c]: lines written on c and not yet read
  nConn,          \* number of transports opened so far
  reader,         \* s.reader
  LastKeepAlive,  \* s.LastKeepAlive
  now,            \* time.Now(), counted in lines read
  eventsClosed,   \* s.events has been closed
  ppc,            \* where the producer goroutine stands
  r,              \* the producer's bufio.Reader: transport and buffer
  payload,        \* payload[0], payload[1]
  lineCount,
  nonBlank,       \* history: non-blank lines read since lineCount was 0
  ev,             \* the Event the producer is about to send
  pending,        \* the dispatch loop's queue
  dpc,            \* where the dispatch loop stands
  delivered,      \* what the consumer has received from Events()
  consumerDone,   \* the consumer has seen the end of Events()
  closeCalls,     \* calls of Close() that returned
  panicked,       \* the process died of a runtime panic
  written,        \* history: every frame the server wrote
  decoded,        \* history: the frames whose last line the producer read
  renewed,        \* history: result of Renew() per auth_revoked frame
  reopened,       \* history: result of the re-open per auth_revoked frame
  openAttempts,   \* history: calls of openStream()
  closedIdle,     \* history: Close() was called on an idle Subscription
  lastClose,      \* the last Close(): the transport's result, Close()'s
  token,          \* the Authenticator's token, numbered by its renewals
  requests,       \* history: the requests openStream() has sent
  forwarded,      \* history: the Events the dispatch loop took from fetchEvent
  refs            \* the Reference values the caller has built

vars == << reference, sub, open, srvClosed, wire, nConn, reader,
           LastKeepAlive, now, eventsClosed, ppc, r, payload, lineCount,
           nonBlank, ev, pending, dpc, delivered, consumerDone, closeCalls,
           panicked,
           written, decoded, renewed, reopened, openAttempts, closedIdle,
           lastClose, token, requests, forwarded, refs >>

transportVars == << open, srvClosed, wire, nConn >>
producerVars  == << ppc, r, payload, lineCount, nonBlank, ev >>
historyVars   == << written, decoded, renewed, reopened, openAttempts, closedIdle,
                   lastClose >>

Running == sub = "open" /\ ~panicked

\* ------------------------------------------------------------------------
\* Construction
\* ------------------------------------------------------------------------
Init ==
  /\ reference \in References
  /\ sub = "new"
  /\ open = {}
  /\ srvClosed = {}
  /\ wire = [c \in Conns |-> << >>]
  /\ nConn = 0
  /\ reader = Nil
  /\ LastKeepAlive = 0
  /\ now = 0
  /\ eventsClosed = FALSE
  /\ ppc = "idle"
  /\ r = [conn |-> Nil, buf |-> << >>]
  /\ payload = << EmptyString, EmptyString >>
  /\ lineCount = 0
  /\ nonBlank = 0
  /\ ev = NoEvent
  /\ pending = << >>
  /\ dpc = "idle"
  /\ delivered = << >>
  /\ consumerDone = FALSE
  /\ closeCalls = 0
  /\ panicked = FALSE
  /\ written = << >>
  /\ decoded = << >>
  /\ renewed = << >>
  /\ reopened = << >>
  /\ openAttempts = 0
  /\ closedIdle = FALSE
  /\ lastClose = [reader |-> NoErr, ret |-> NoErr, inReconnect |-> FALSE]
  /\ token = 0
  /\ requests = << >>
  /\ forwarded = << >>
  /\ refs = << >>

\* ------------------------------------------------------------------------
\* Transport
\* ------------------------------------------------------------------------
\* The results openStream() can have: the body of a 200 response, an error
\* of r.do(req), or a response with another status (its body is closed
\* before openStream returns).
OpenResults == {"ok", "doError", "badStatus"}

\* Closing a transport on the client side: data still unread is gone.
CloseTransport(c, op) == op \ {c}

\* An openStream() that leaves the body of a refused request open.
CloseBody_Leak(c, op) == op

\* response.Body.Close() on a status other than 200.
CloseBody(c, op) == CloseTransport(c, op)

\* The transports open once openStream() has returned, c being the body of
\* the response if there is one.
OpenStream(res, c, op) ==
  CASE res = "ok"        -> op \cup {c}
    [] res = "doError"   -> op
    [] res = "badStatus" -> CloseBody(c, op \cup {c})

DropUnread(c, w) == IF c \in Conns THEN [w EXCEPT ![c] = << >>] ELSE w

\* An openStream() that sends the credential of the first request again.
AuthParam_Cached(auth, tok, reqs) ==
  IF auth = "none" THEN "none" ELSE IF reqs = << >> THEN tok ELSE reqs[1].req.auth

\* addAuth: r.auth.String() at the time of the call, if there is an
\* Authenticator.
AuthParam(auth, tok, reqs) == IF auth = "none" THEN "none" ELSE tok

\* The request openStream() sends: GET r.addAuth().jsonUrl().
Request(ref, tok, reqs) ==
  [url |-> ref.url, auth |-> AuthParam(ref.auth, tok, reqs)]

\* A bufio.Reader that is given the new transport and keeps the lines the
\* old one had buffered.
NewReader_KeepBuf(c, old) == [conn |-> c, buf |-> old.buf]

\* bufio.NewReader(s.reader): a reader on the transport c, nothing buffered.
NewReader(c, old) == [conn |-> c, buf |-> << >>]

\* Reference.Subscribe on the Reference ref: one openStream(); on success
\* the Subscription is built with a copy of ref and loop() is started, on
\* failure nothing exists.
SubscribeWith(ref) ==
  /\ sub = "new"
  /\ ~panicked
  /\ reference' = ref
  /\ openAttempts' = openAttempts + 1
  /\ \E res \in OpenResults :
       /\ requests' = Append(requests, [req |-> Request(ref, token, requests),
                                        ok |-> res = "ok"])
       /\ open' = OpenStream(res, nConn + 1, open)
       /\ IF res = "ok"
          THEN /\ sub' = "open"
               /\ nConn' = nConn + 1
               /\ reader' = nConn + 1
               /\ r' = NewReader(nConn + 1, r)
               /\ ppc' = "read"
               /\ dpc' = "select"
          ELSE /\ sub' = "failed"
               /\ nConn' = nConn
               /\ UNCHANGED << reader, r, ppc, dpc >>
  /\ UNCHANGED << srvClosed, wire, LastKeepAlive, now, eventsClosed, payload,
                  lineCount, nonBlank, ev, pending, delivered, consumerDone,
                  closeCalls, panicked, written, decoded, renewed, reopened,
                  closedIdle, lastClose, token, forwarded >>

\* Subscribe() on the Reference of this run.
Subscribe ==
  /\ SubscribeWith(reference)
  /\ UNCHANGED refs

\* The server writes one frame on a transport that both ends hold open.
ServerFrame ==
  /\ Running
  /\ Len(written) < MaxFrames
  /\ \E c \in open \ srvClosed, k \in Kinds :
       LET n == Len(written) + 1 IN
       /\ wire' = [wire EXCEPT ![c] = @ \o FrameLines(k, "ok", n)]
       /\ written' = Append(written, [id |-> n, conn |-> c, kind |-> k, shape |-> "ok"])
  /\ UNCHANGED << reference, sub, open, srvClosed, nConn, reader, LastKeepAlive,
                  now, eventsClosed, producerVars, pending, dpc, delivered,
                  consumerDone, closeCalls, panicked, decoded, renewed,
                  reopened, openAttempts, closedIdle, lastClose >>
  /\ UNCHANGED << token, requests, forwarded, refs >>

\* The server writes something that is not a frame.
ServerMalformed ==
  /\ Running
  /\ Len(written) < MaxFrames
  /\ \E c \in open \ srvClosed, sh \in Shapes :
       LET n == Len(written) + 1 IN
       /\ wire' = [wire EXCEPT ![c] = @ \o FrameLines("put", sh, n)]
       /\ written' = Append(written, [id |-> n, conn |-> c, kind |-> "put", shape |-> sh])
  /\ UNCHANGED << reference, sub, open, srvClosed, nConn, reader, LastKeepAlive,
                  now, eventsClosed, producerVars, pending, dpc, delivered,
                  consumerDone, closeCalls, panicked, decoded, renewed,
                  reopened, openAttempts, closedIdle, lastClose >>
  /\ UNCHANGED << token, requests, forwarded, refs >>

\* The server closes the connection: the reader sees EOF after the data.
ServerClose ==
  /\ Running
  /\ \E c \in open \ srvClosed : srvClosed' = srvClosed \cup {c}
  /\ UNCHANGED << reference, sub, open, wire, nConn, reader, LastKeepAlive, now,
                  eventsClosed, producerVars, pending, dpc, delivered,
                  consumerDone, closeCalls, panicked, historyVars >>
  /\ UNCHANGED << token, requests, forwarded, refs >>

\* ------------------------------------------------------------------------
\* Producer goroutine
\* ------------------------------------------------------------------------
\* What r.ReadString('\n') can return: the next buffered line; otherwise
\* the bufio.Reader reads from its transport, which fails once the
\* transport is closed, hands over some of the lines that have arrived, or
\* reports EOF after the server closed. No result: the read blocks.
ReadResults ==
  IF r.buf # << >>
  THEN { [err |-> FALSE, line |-> Head(r.buf), buf |-> Tail(r.buf), took |-> 0] }
  ELSE IF r.conn \notin open
  THEN { [err |-> TRUE, line |-> EmptyString, buf |-> << >>, took |-> 0] }
  ELSE IF wire[r.conn] # << >>
  THEN { [err |-> FALSE, line |-> Head(wire[r.conn]),
          buf |-> SubSeq(wire[r.conn], 2, k), took |-> k] :
            k \in 1..Len(wire[r.conn]) }
  ELSE IF r.conn \in srvClosed
  THEN { [err |-> TRUE, line |-> EmptyString, buf |-> << >>, took |-> 0] }
  ELSE {}

\* The producer is blocked in the read on the transport.
BlockedInRead == ppc = "read" /\ ReadResults = {}

\* A producer that reconnects without asking the Authenticator.
OnAuthRevoked_NoRenew(auth) == IF auth # "none" THEN "closeOld" ELSE "send"

\* A producer that calls Renew() whether or not there is an Authenticator.
OnAuthRevoked_AlwaysRenew(auth) == "renew"

\* case "auth_revoked": with an Authenticator Renew() comes first, without
\* one the event is sent on as it is.
OnAuthRevoked(auth) == IF auth # "none" THEN "renew" ELSE "send"

\* s.LastKeepAlive = time.Now() on a keep-alive, untouched otherwise.
Stamp(ka, pass, t, old) == IF ka THEN t ELSE old

\* A producer that passes every keep-alive on.
KeepAliveTo_Always(pass) == "send"

\* if s.reference.passKeepAlive { fetchEvent <- ... }
KeepAliveTo(pass) == IF pass THEN "send" ELSE "next"

\* A producer that reads again after a failed read.
OnReadError_Retry == "read"

\* A producer that sends on what it holds when the read fails.
OnReadError_Flush == "send"

\* if err != nil { break }: the read loop ends, s.closing <- true is next.
OnReadError == "closing"

\* A producer that ends its loop on a cancel frame.
OnDefault_CancelEnds(eventType) ==
  IF eventType = "cancel" THEN "closing" ELSE "send"

\* default: the "normal" event is sent on, whatever its kind.
OnDefault(eventType) == "send"

\* A decoder that ignores an empty line when no line is accumulated.
BadlyFormated_SkipEmpty(lc) ==
  IF lc = 0
  THEN [to |-> "next", ev |-> NoEvent, ka |-> FALSE]
  ELSE [to |-> "send", ev |-> ErrEvent(ErrBody), ka |-> FALSE]

\* An empty line after a number of lines other than len(payload).
BadlyFormated(lc) == [to |-> "send", ev |-> ErrEvent(ErrBody), ka |-> FALSE]

\* What an empty line makes of the lines accumulated before it:
\* where the producer goes next, with which Event, and whether the frame
\* is a keep-alive.
Frame(pl, lc) ==
  IF lc = 2
  THEN IF ~HasPrefix(pl[1], "event:")
       THEN [to |-> "send", ev |-> ErrEvent(ErrFirst), ka |-> FALSE]
       ELSE IF ~HasPrefix(pl[2], "data:")
       THEN [to |-> "send", ev |-> ErrEvent(ErrSecond), ka |-> FALSE]
       ELSE LET eventType == pl[1].kind
                eventData == pl[2].id
            IN CASE eventType = "keep-alive" ->
                      [to |-> KeepAliveTo(reference.passKeepAlive),
                       ev |-> Event(eventType, eventData, NoErr), ka |-> TRUE]
                 [] eventType = "auth_revoked" ->
                      [to |-> OnAuthRevoked(reference.auth),
                       ev |-> Event(eventType, eventData, NoErr), ka |-> FALSE]
                 [] OTHER ->
                      [to |-> OnDefault(eventType),
                       ev |-> Event(eventType, eventData, NoErr), ka |-> FALSE]
  ELSE BadlyFormated(lc)

\* One turn of the read loop up to its next blocking operation.
ProducerRead ==
  /\ Running
  /\ ppc = "read"
  /\ \E res \in ReadResults :
       IF res.err
       THEN /\ ppc' = OnReadError
            /\ UNCHANGED << r, wire, payload, lineCount, nonBlank, ev,
                            LastKeepAlive, now, decoded >>
       ELSE /\ r' = [r EXCEPT !.buf = res.buf]
            /\ wire' = IF res.took = 0 THEN wire
                       ELSE [wire EXCEPT ![r.conn] =
                               SubSeq(@, res.took + 1, Len(@))]
            /\ now' = now + 1
            /\ IF IsEmpty(res.line)
               THEN LET f == Frame(payload, lineCount) IN
                    /\ decoded' = Append(decoded, res.line.id)
                    /\ LastKeepAlive' = Stamp(f.ka, reference.passKeepAlive, now',
                                              LastKeepAlive)
                    /\ ppc' = IF f.to = "next" THEN "read" ELSE f.to
                    /\ ev' = IF f.to = "next" THEN NoEvent ELSE f.ev
                    /\ lineCount' = IF f.to = "next" THEN 0 ELSE lineCount
                    /\ nonBlank' = IF f.to = "next" THEN 0 ELSE nonBlank
                    /\ UNCHANGED payload
               ELSE /\ IF lineCount < 2
                       THEN /\ payload' = [payload EXCEPT ![lineCount + 1] = res.line]
                            /\ lineCount' = lineCount + 1
                       ELSE UNCHANGED << payload, lineCount >>
                    /\ nonBlank' = nonBlank + 1
                    /\ UNCHANGED << ppc, ev, LastKeepAlive, decoded >>
  /\ UNCHANGED << reference, sub, open, srvClosed, nConn, reader, eventsClosed,
                  pending, dpc, delivered, consumerDone, closeCalls, panicked,
                  written, renewed, reopened, openAttempts, closedIdle, lastClose >>
  /\ UNCHANGED << token, requests, forwarded, refs >>

\* A static secret whose Renew() reports success.
SecretRenew_Ok == { NoErr }

\* Secret.Renew: always the error, the Token is not touched.
SecretRenew == { ErrStatic }

\* The results Renew() can have with the Reference's Authenticator.
RenewResults ==
  IF reference.auth = "Secret" THEN SecretRenew ELSE { NoErr, ErrRenew }

\* The token after Renew(): a new one when it succeeded.
TokenAfterRenew(err, tok) == IF err = NoErr THEN tok + 1 ELSE tok

\* A producer that goes on to the reconnect whatever Renew() returned.
AfterRenew_IgnoreErr(err, e) == [to |-> "closeOld", ev |-> e]

\* if err = s.reference.auth.Renew(); err == nil { close and re-open };
\* otherwise the event is sent on with err.
AfterRenew(err, e) ==
  IF err = NoErr
  THEN [to |-> "closeOld", ev |-> e]
  ELSE [to |-> "send", ev |-> [e EXCEPT !.Err = err]]

\* auth_revoked with an Authenticator: s.reference.auth.Renew().
ProducerRenew ==
  /\ Running
  /\ ppc = "renew"
  /\ \E err \in RenewResults :
       /\ renewed' = Append(renewed, [id |-> ev.data, err |-> err])
       /\ token' = TokenAfterRenew(err, token)
       /\ ppc' = AfterRenew(err, ev).to
       /\ ev' = AfterRenew(err, ev).ev
  /\ UNCHANGED << reference, sub, transportVars, reader, LastKeepAlive, now,
                  eventsClosed, r, payload, lineCount, nonBlank, pending, dpc,
                  delivered,
                  consumerDone, closeCalls, panicked, written, decoded,
                  reopened, openAttempts, closedIdle, lastClose >>
  /\ UNCHANGED << requests, forwarded, refs >>

\* A reconnect that leaves the old transport open.
CloseOld_Noop(rd, op) == op

\* What s.reader.Close() of the reconnect leaves open.
CloseOld(rd, op) == CloseTransport(rd, op)

\* After a successful Renew(): s.reader.Close().
ProducerCloseOld ==
  /\ Running
  /\ ppc = "closeOld"
  /\ IF reader = Nil
     THEN /\ panicked' = TRUE
          /\ UNCHANGED << open, wire, ppc >>
     ELSE /\ open' = CloseOld(reader, open)
          /\ wire' = DropUnread(reader, wire)
          /\ ppc' = "open"
          /\ UNCHANGED panicked
  /\ UNCHANGED << reference, sub, srvClosed, nConn, reader, LastKeepAlive, now,
                  eventsClosed, r, payload, lineCount, nonBlank, ev, pending,
                  dpc,
                  delivered, consumerDone, closeCalls, historyVars >>
  /\ UNCHANGED << token, requests, forwarded, refs >>

\* A re-open that keeps the old handle when it fails.
ReaderAfterReopen_Keep(res, new, old) == IF res = "ok" THEN new ELSE old

\* s.reader, err = s.reference.openStream(): the new body, or nil.
ReaderAfterReopen(res, new, old) == IF res = "ok" THEN new ELSE Nil

\* A reconnect that tries the open again when it failed.
AfterReopen_Retry(res, e) ==
  IF res = "ok" THEN [to |-> "read", ev |-> NoEvent] ELSE [to |-> "open", ev |-> e]

\* A reconnect without the break: the event is sent on in any case.
AfterReopen_NoBreak(res, e) ==
  [to |-> "send", ev |-> [e EXCEPT !.Err = IF res = "ok" THEN NoErr ELSE ErrOpen]]

\* if err == nil { r = bufio.NewReader(s.reader); break }; otherwise the
\* event is sent on with err.
AfterReopen(res, e) ==
  IF res = "ok"
  THEN [to |-> "read", ev |-> NoEvent]
  ELSE [to |-> "send", ev |-> [e EXCEPT !.Err = ErrOpen]]

\* s.reader, err = s.reference.openStream(); on success the bufio.Reader is
\* replaced and the frame is done, otherwise the event goes on with err.
ProducerReopen ==
  /\ Running
  /\ ppc = "open"
  /\ openAttempts' = openAttempts + 1
  /\ \E res \in IF nConn < MaxConn THEN OpenResults ELSE OpenResults \ {"ok"} :
       /\ reopened' = Append(reopened, [id |-> ev.data, ok |-> res = "ok"])
       /\ requests' = Append(requests,
                             [req |-> Request(reference, token, requests),
                              ok |-> res = "ok"])
       /\ reader' = ReaderAfterReopen(res, nConn + 1, reader)
       /\ ppc' = AfterReopen(res, ev).to
       /\ ev' = AfterReopen(res, ev).ev
       /\ lineCount' = IF AfterReopen(res, ev).to = "read" THEN 0 ELSE lineCount
       /\ nonBlank' = IF AfterReopen(res, ev).to = "read" THEN 0 ELSE nonBlank
       /\ open' = OpenStream(res, nConn + 1, open)
       /\ IF res = "ok"
          THEN /\ nConn' = nConn + 1
               /\ r' = NewReader(nConn + 1, r)
          ELSE UNCHANGED << nConn, r >>
  /\ UNCHANGED << reference, sub, srvClosed, wire, LastKeepAlive, now,
                  eventsClosed, payload, pending, dpc, delivered, consumerDone,
                  closeCalls, panicked, written, decoded, renewed, closedIdle, lastClose >>
  /\ UNCHANGED << token, forwarded, refs >>

\* ------------------------------------------------------------------------
\* Dispatch loop
\* ------------------------------------------------------------------------
\* A dispatch loop that puts a new event before the others.
Enqueue_Front(q, e) == << e >> \o q

Enqueue(q, e) == Append(q, e)

\* A dispatch loop whose queue holds one event at most.
Accepts_Bounded(q) == Len(q) < 1

\* The fetch case of the select has no condition: the size of the queue is
\* not controlled.
Accepts(q) == TRUE

\* A dispatch loop that keeps the head after sending it.
Dequeue_Keep(q) == q

\* pending = pending[1:]
Dequeue(q) == Tail(q)

\* case event := <-fetchEvent, meeting the producer's fetchEvent <- Event{..}
DispatchFetch ==
  /\ Running
  /\ dpc = "select"
  /\ ppc = "send"
  /\ Accepts(pending)
  /\ pending' = Enqueue(pending, ev)
  /\ forwarded' = Append(forwarded, ev)
  /\ ppc' = "read"
  /\ ev' = NoEvent
  /\ lineCount' = 0
  /\ nonBlank' = 0
  /\ UNCHANGED << reference, sub, transportVars, reader, LastKeepAlive, now,
                  eventsClosed, r, payload, dpc, delivered, consumerDone,
                  closeCalls, panicked, historyVars >>
  /\ UNCHANGED << token, requests, refs >>

\* A producer that offers the closing signal again after it was taken.
AfterClosing_Again == "closing"

\* s.closing <- true is the last statement of the producer goroutine.
AfterClosing == "done"

\* case <-s.closing, meeting the producer's s.closing <- true:
\* close(s.events), and break leaves the select, not the for loop.
DispatchClosing ==
  /\ Running
  /\ dpc = "select"
  /\ ppc = "closing"
  /\ ppc' = AfterClosing
  /\ IF eventsClosed
     THEN panicked' = TRUE /\ UNCHANGED eventsClosed
     ELSE eventsClosed' = TRUE /\ UNCHANGED panicked
  /\ dpc' = "select"
  /\ UNCHANGED << reference, sub, transportVars, reader, LastKeepAlive, now,
                  r, payload, lineCount, nonBlank, ev, pending, delivered,
                  consumerDone,
                  closeCalls, historyVars >>
  /\ UNCHANGED << token, requests, forwarded, refs >>

\* case events <- first, meeting a receive of the consumer.
DispatchDeliver ==
  /\ Running
  /\ dpc = "select"
  /\ pending # << >>
  /\ ~eventsClosed
  /\ ~consumerDone
  /\ delivered' = Append(delivered, Head(pending))
  /\ pending' = Dequeue(pending)
  /\ UNCHANGED << reference, sub, transportVars, reader, LastKeepAlive, now,
                  eventsClosed, producerVars, dpc, consumerDone, closeCalls,
                  panicked, historyVars >>
  /\ UNCHANGED << token, requests, forwarded, refs >>

\* case events <- first once s.events is closed: send on closed channel.
DispatchSendOnClosed ==
  /\ Running
  /\ dpc = "select"
  /\ pending # << >>
  /\ eventsClosed
  /\ panicked' = TRUE
  /\ UNCHANGED << reference, sub, transportVars, reader, LastKeepAlive, now,
                  eventsClosed, producerVars, pending, dpc, delivered,
                  consumerDone, closeCalls, historyVars >>
  /\ UNCHANGED << token, requests, forwarded, refs >>

\* ------------------------------------------------------------------------
\* Consumer and caller
\* ------------------------------------------------------------------------
\* The consumer's receive on the closed channel: range s.Events() ends.
ConsumerEnd ==
  /\ Running
  /\ eventsClosed
  /\ ~consumerDone
  /\ consumerDone' = TRUE
  /\ UNCHANGED << reference, sub, transportVars, reader, LastKeepAlive, now,
                  eventsClosed, producerVars, pending, dpc, delivered,
                  closeCalls, panicked, historyVars >>
  /\ UNCHANGED << token, requests, forwarded, refs >>

\* A Close() that leaves the transport open.
CloseReader_Noop(rd, op) == op

\* What s.reader.Close() of Close() leaves open.
CloseReader(rd, op) == CloseTransport(rd, op)

\* The producer is between Renew() and the re-open of an auth_revoked frame.
InReconnect == ppc \in {"renew", "closeOld", "open"}

\* What Close() of an io.ReadCloser can report.
CloseResults == { NoErr, ErrClose }

\* A Close() that swallows the error of the transport.
CloseReturn_Swallow(e) == NoErr

\* return s.reader.Close()
CloseReturn(e) == e

\* Subscription.Close: s.reader.Close(), from the caller's goroutine.
Close ==
  /\ Running
  /\ closeCalls < MaxClose
  /\ IF reader = Nil
     THEN /\ panicked' = TRUE
          /\ UNCHANGED << open, wire, closeCalls, closedIdle, lastClose >>
     ELSE /\ open' = CloseReader(reader, open)
          /\ wire' = DropUnread(reader, wire)
          /\ closeCalls' = closeCalls + 1
          /\ closedIdle' = (closedIdle \/ (BlockedInRead /\ pending = << >>))
          /\ \E e \in CloseResults :
                lastClose' = [reader |-> e, ret |-> CloseReturn(e),
                              inReconnect |-> InReconnect]
          /\ UNCHANGED panicked
  /\ UNCHANGED << reference, sub, srvClosed, nConn, reader, LastKeepAlive, now,
                  eventsClosed, producerVars, pending, dpc, delivered,
                  consumerDone, written, decoded, renewed, reopened,
                  openAttempts >>
  /\ UNCHANGED << token, requests, forwarded, refs >>

\* ------------------------------------------------------------------------
\* Specification
\* ------------------------------------------------------------------------
Producer == ProducerRead \/ ProducerRenew \/ ProducerCloseOld \/ ProducerReopen

Dispatch == DispatchFetch \/ DispatchClosing \/ DispatchSendOnClosed

Next ==
  \/ Subscribe
  \/ ServerFrame
  \/ ServerMalformed
  \/ ServerClose
  \/ ProducerRead
  \/ ProducerRenew
  \/ ProducerCloseOld
  \/ ProducerReopen
  \/ DispatchFetch
  \/ DispatchClosing
  \/ DispatchDeliver
  \/ DispatchSendOnClosed
  \/ ConsumerEnd
  \/ Close

Spec == Init /\ [][Next]_vars

\* The Go scheduler runs every goroutine that can run: the producer, the
\* dispatch loop (its select takes a ready case) and the consumer's receive.
FairSpec ==
  /\ Spec
  /\ WF_vars(Producer)
  /\ WF_vars(Dispatch)
  /\ WF_vars(ConsumerEnd)

\* ------------------------------------------------------------------------
\* The frame decoder on arbitrary input
\* ------------------------------------------------------------------------
\* The lines a server may send: event: and data: lines, a line with neither
\* prefix, and the blank line.
InputLines ==
  { EventLine("put"), EventLine("keep-alive"), EventLine("cancel"),
    DataLine(1), JunkLine(1), BlankLine(1) }

Inputs == UNION { [1..n -> InputLines] : n \in 1..MaxLines }

\* A Subscription just opened by Subscribe(), whose bufio.Reader has read
\* the first lines the server sent into its buffer.
DecoderInit ==
  /\ reference \in References
  /\ sub = "open"
  /\ open = {1}
  /\ srvClosed = {}
  /\ wire = [c \in Conns |-> << >>]
  /\ nConn = 1
  /\ reader = 1
  /\ LastKeepAlive = 0
  /\ now = 0
  /\ eventsClosed = FALSE
  /\ ppc = "read"
  /\ r \in { [conn |-> 1, buf |-> b] : b \in Inputs }
  /\ payload = << EmptyString, EmptyString >>
  /\ lineCount = 0
  /\ nonBlank = 0
  /\ ev = NoEvent
  /\ pending = << >>
  /\ dpc = "select"
  /\ delivered = << >>
  /\ consumerDone = FALSE
  /\ closeCalls = 0
  /\ panicked = FALSE
  /\ written = << >>
  /\ decoded = << >>
  /\ renewed = << >>
  /\ reopened = << >>
  /\ openAttempts = 1
  /\ closedIdle = FALSE
  /\ lastClose = [reader |-> NoErr, ret |-> NoErr, inReconnect |-> FALSE]
  /\ token = 0
  /\ requests = << >>
  /\ forwarded = << >>
  /\ refs = << >>

DecoderNext ==
  \/ ProducerRead
  \/ DispatchFetch
  \/ DispatchDeliver

DecoderSpec == DecoderInit /\ [][DecoderNext]_vars

\* ------------------------------------------------------------------------
\* The end of the input
\* ------------------------------------------------------------------------
\* The decoder on arbitrary input that the server ends at any point, in
\* the middle of a frame included, with the dispatch loop and the consumer.
TruncatedNext ==
  \/ ServerClose
  \/ ProducerRead
  \/ DispatchFetch
  \/ DispatchClosing
  \/ DispatchDeliver
  \/ DispatchSendOnClosed
  \/ ConsumerEnd

TruncatedSpec == DecoderInit /\ [][TruncatedNext]_vars

\* ------------------------------------------------------------------------
\* The caller's References
\* ------------------------------------------------------------------------
\* NewReference(url): no flag set, no Authenticator.
NewReference ==
  [passKeepAlive |-> FALSE, retry |-> FALSE, auth |-> "none", url |-> "live"]

\* A setter with a pointer receiver: the receiver is changed as well.
PassKeepAlive_InPlace(rcv, value) ==
  [receiver |-> [rcv EXCEPT !.passKeepAlive = value],
   result   |-> [rcv EXCEPT !.passKeepAlive = value]]

\* func (r Reference) PassKeepAlive(value bool) Reference: what the call
\* leaves in the receiver, and what it returns.
PassKeepAlive(rcv, value) ==
  [receiver |-> rcv, result |-> [rcv EXCEPT !.passKeepAlive = value]]

\* func (r Reference) Retry(value bool) Reference
Retry(rcv, value) ==
  [receiver |-> rcv, result |-> [rcv EXCEPT !.retry = value]]

\* The caller has built the Reference of NewReference and nothing else.
RefInit ==
  /\ reference = NewReference
  /\ sub = "new"
  /\ open = {}
  /\ srvClosed = {}
  /\ wire = [c \in Conns |-> << >>]
  /\ nConn = 0
  /\ reader = Nil
  /\ LastKeepAlive = 0
  /\ now = 0
  /\ eventsClosed = FALSE
  /\ ppc = "idle"
  /\ r = [conn |-> Nil, buf |-> << >>]
  /\ payload = << EmptyString, EmptyString >>
  /\ lineCount = 0
  /\ nonBlank = 0
  /\ ev = NoEvent
  /\ pending = << >>
  /\ dpc = "idle"
  /\ delivered = << >>
  /\ consumerDone = FALSE
  /\ closeCalls = 0
  /\ panicked = FALSE
  /\ written = << >>
  /\ decoded = << >>
  /\ renewed = << >>
  /\ reopened = << >>
  /\ openAttempts = 0
  /\ closedIdle = FALSE
  /\ lastClose = [reader |-> NoErr, ret |-> NoErr, inReconnect |-> FALSE]
  /\ token = 0
  /\ requests = << >>
  /\ forwarded = << >>
  /\ refs = << [val |-> NewReference, op |-> "NewReference", from |-> 0,
                arg |-> FALSE] >>

\* The caller calls refs[i].PassKeepAlive(v) and keeps the result.
CallPassKeepAlive ==
  /\ Len(refs) < MaxRefs
  /\ \E i \in DOMAIN refs, v \in BOOLEAN :
       LET c == PassKeepAlive(refs[i].val, v) IN
       refs' = Append([refs EXCEPT ![i].val = c.receiver],
                      [val |-> c.result, op |-> "PassKeepAlive", from |-> i,
                       arg |-> v])
  /\ UNCHANGED << reference, sub, transportVars, reader, LastKeepAlive, now,
                  eventsClosed, producerVars, pending, dpc, delivered,
                  consumerDone, closeCalls, panicked, historyVars, token,
                  requests, forwarded >>

\* The caller calls refs[i].Retry(v) and keeps the result.
CallRetry ==
  /\ Len(refs) < MaxRefs
  /\ \E i \in DOMAIN refs, v \in BOOLEAN :
       LET c == Retry(refs[i].val, v) IN
       refs' = Append([refs EXCEPT ![i].val = c.receiver],
                      [val |-> c.result, op |-> "Retry", from |-> i, arg |-> v])
  /\ UNCHANGED << reference, sub, transportVars, reader, LastKeepAlive, now,
                  eventsClosed, producerVars, pending, dpc, delivered,
                  consumerDone, closeCalls, panicked, historyVars, token,
                  requests, forwarded >>

\* The caller subscribes on one of its References.
RefSubscribe ==
  /\ \E i \in DOMAIN refs : SubscribeWith(refs[i].val)
  /\ UNCHANGED refs

RefNext ==
  \/ CallPassKeepAlive
  \/ CallRetry
  \/ RefSubscribe

RefSpec == RefInit /\ [][RefNext]_vars

\* ------------------------------------------------------------------------
\* Vocabulary of the properties
\* ------------------------------------------------------------------------
FrameOf(n) == written[n]

\* Events with a kind: those made from a whole frame.
Typed(e) == e.Type # ""

\* The frames for which Renew() returned nil, returned an error, and for
\* which the re-open was tried, succeeded.
RenewError(f) == (CHOOSE x \in { renewed[i] : i \in DOMAIN renewed } : x.id = f).err
RenewedOK     == { renewed[i].id : i \in { j \in DOMAIN renewed : renewed[j].err = NoErr } }
RenewFailed   == { renewed[i].id : i \in { j \in DOMAIN renewed : renewed[j].err # NoErr } }
ReopenTried   == { reopened[i].id : i \in DOMAIN reopened }
Reconnected   == { reopened[i].id : i \in { j \in DOMAIN reopened : reopened[j].ok } }

RenewCount(f)  == Cardinality({ i \in DOMAIN renewed : renewed[i].id = f })
ReopenCount(f) == Cardinality({ i \in DOMAIN reopened : reopened[i].id = f })

\* Everything the producer has handed or is handing to the dispatch loop.
Pipeline == delivered \o pending \o (IF ppc = "send" THEN << ev >> ELSE << >>)

\* How often the consumer received the Event e.
Received(e) == Cardinality({ i \in DOMAIN delivered : delivered[i] = e })

\* The transports the Subscription holds: opened by it and not closed by it.
Live == open

\* The input was frames that carry data only, and the consumer never
\* cancelled.
OnlyDataFrames ==
  /\ written # << >>
  /\ \A i \in DOMAIN written : written[i].shape = "ok" /\ written[i].kind = "put"

EventsOfFrames == [i \in DOMAIN written |-> Event(written[i].kind, written[i].id, NoErr)]

\* ------------------------------------------------------------------------
\* C1. N well-formed frames without control frames: the consumer observes
\* exactly N Events, in the order of the frames. Stated for an input that
\* has ended: once the output sequence is over, the consumer has seen them
\* all. The code loses the tail when the closing signal overtakes it.
\* ------------------------------------------------------------------------
C1_AllFramesObserved ==
  (OnlyDataFrames /\ closeCalls = 0 /\ eventsClosed) => delivered = EventsOfFrames

\* ------------------------------------------------------------------------
\* C2. Once Close() has returned, no Event is delivered to the consumer any
\* more. In the code Close() only closes the transport: what is pending is
\* still delivered afterwards.
\* ------------------------------------------------------------------------
C2_NoEventAfterClose == [][closeCalls > 0 => delivered' = delivered]_vars

C4_LoopReturns == eventsClosed => dpc = "returned"

\* ------------------------------------------------------------------------
\* C5. At most one transport is open per Subscription: in a reconnect the
\* old one is closed before the new one is opened, and the producer reads
\* from the transport the Subscription holds.
\* ------------------------------------------------------------------------
C5_AtMostOneTransport ==
  /\ Cardinality(Live) <= 1
  /\ Live \subseteq {reader}
  /\ ppc = "open" => Live = {}
  /\ (ppc = "read" /\ reader # Nil) => r.conn = reader
  /\ \A c \in Conns : wire[c] # << >> => c \in Live

C5_Witness ==
  /\ Reconnected # {}
  /\ Live = {reader}
  /\ ppc = "read"
  /\ \E i \in DOMAIN delivered : Typed(delivered[i]) /\ FrameOf(delivered[i].data).conn = reader

\* ------------------------------------------------------------------------
\* C6. While the output sequence has not ended the Subscription holds
\* exactly one transport. As stated this fails: the reconnect closes the
\* old transport before it opens the new one, Close() closes it before the
\* output ends, and a failed re-open leaves none.
\* ------------------------------------------------------------------------
C6_ExactlyOneWhileOpen ==
  (sub = "open" /\ ~eventsClosed) => Cardinality(Live) = 1

\* C6, amended. Never two; exactly one while the output sequence has not
\* ended, except between the close and the re-open of a reconnect, after
\* Close() was called, and after a re-open that failed.
C6_OneTransportWhileStreaming ==
  /\ Cardinality(Live) <= 1
  /\ (sub = "open" /\ ~eventsClosed /\ closeCalls = 0 /\ ppc # "open" /\ reader # Nil)
        => Live = {reader}
  /\ (sub = "open" /\ reader = Nil) => (\E i \in DOMAIN reopened : ~reopened[i].ok)

C6_Witness ==
  /\ Reconnected # {}
  /\ ~eventsClosed
  /\ closeCalls = 0
  /\ ppc = "read"
  /\ Cardinality(Live) = 1

\* ------------------------------------------------------------------------
\* Order of delivery, in terms of the frames written
\* ------------------------------------------------------------------------
\* A frame written on a transport after the auth_revoked frame whose
\* reconnect replaced that transport.
CutBefore(f) ==
  \E g \in Reconnected : FrameOf(g).conn = FrameOf(f).conn /\ g < f

\* The frames that are to reach the consumer as an Event with their kind.
Deliverable(f) ==
  /\ FrameOf(f).shape = "ok"
  /\ FrameOf(f).kind = "keep-alive" => reference.passKeepAlive
  /\ f \notin Reconnected
  /\ ~CutBefore(f)

TypedIds(q) == { q[i].data : i \in { j \in DOMAIN q : Typed(q[j]) } }

\* Frames are delivered in the order written, none twice, and those of a
\* later transport after those of an earlier one.
InOrder ==
  \A i, j \in DOMAIN delivered :
     (i < j /\ Typed(delivered[i]) /\ Typed(delivered[j])) =>
        /\ delivered[i].data < delivered[j].data
        /\ FrameOf(delivered[i].data).conn <= FrameOf(delivered[j].data).conn

\* No frame is skipped: whatever was written before a delivered frame and
\* is to be delivered has been delivered.
NoGaps ==
  \A j \in DOMAIN delivered :
     Typed(delivered[j]) =>
        \A f \in 1..(delivered[j].data - 1) :
           Deliverable(f) => f \in TypedIds(delivered)

\* ------------------------------------------------------------------------
\* C7. On an auth_revoked frame whose renewal succeeds the consumer never
\* sees the auth_revoked Event, and the events come in order, without
\* duplicates or gaps. As stated this fails: when Renew() succeeds and the
\* re-open fails, the Event is sent on with the error of the re-open.
\* ------------------------------------------------------------------------
C7_RenewalHidesRevoked ==
  /\ \A i \in DOMAIN delivered :
        delivered[i].Type = "auth_revoked" => delivered[i].data \notin RenewedOK
  /\ InOrder
  /\ NoGaps

\* C7, amended. On an auth_revoked frame whose renewal and re-open both
\* succeed the consumer never sees the auth_revoked Event, and the events
\* of before and after the reconnect come in order, without duplicates or
\* gaps.
C7_ReconnectTransparent ==
  /\ \A i \in DOMAIN delivered :
        delivered[i].Type = "auth_revoked" => delivered[i].data \notin Reconnected
  /\ InOrder
  /\ NoGaps

C7_Witness ==
  /\ Reconnected # {}
  /\ \E i, j \in DOMAIN delivered :
        /\ i < j
        /\ Typed(delivered[i]) /\ Typed(delivered[j])
        /\ FrameOf(delivered[i].data).conn < FrameOf(delivered[j].data).conn

\* ------------------------------------------------------------------------
\* C8. On an auth_revoked frame whose renewal fails the consumer receives
\* exactly one Event of kind auth_revoked, with the error of Renew().
\* Stated for a stream that has ended without Close(): the Event has been
\* received once. The code can close the output sequence with the Event
\* still pending.
\* ------------------------------------------------------------------------
C8_RevokedReceivedOnce ==
  \A f \in RenewFailed :
     (eventsClosed /\ closeCalls = 0) =>
        /\ Received(Event("auth_revoked", f, RenewError(f))) = 1
        /\ Cardinality({ i \in DOMAIN delivered :
                           delivered[i].Type = "auth_revoked" /\ delivered[i].data = f }) = 1

\* ------------------------------------------------------------------------
\* C9. When Renew() fails the transport is neither closed nor replaced and
\* no open is attempted; the producer keeps decoding from the same
\* transport, the frames it decodes later are handed on for delivery, and
\* a re-open is attempted for a frame only after its Renew() succeeded.
\* ------------------------------------------------------------------------
RenewFails == ppc = "renew" /\ renewed' # renewed /\ renewed'[Len(renewed')].err # NoErr

InHand(f) == ppc \in {"renew", "closeOld", "open"} /\ ev.data = f

DecodedIds == { decoded[i] : i \in DOMAIN decoded }

C9_FailedRenewKeepsTransport ==
  /\ [][RenewFails =>
          /\ UNCHANGED << open, reader, r, nConn, wire, openAttempts, reopened >>
          /\ ppc' = "send"
          /\ ev' = Event("auth_revoked", ev.data, renewed'[Len(renewed')].err)]_vars
  /\ [](\A f \in RenewFailed :
          /\ f \notin ReopenTried
          /\ \A g \in DecodedIds :
                (g > f /\ Deliverable(g) /\ ~InHand(g)) => g \in TypedIds(Pipeline))
  /\ [](\A i \in DOMAIN reopened : reopened[i].id \in RenewedOK /\ ReopenCount(reopened[i].id) = 1)

C9_Witness ==
  \E f \in RenewFailed :
     \E i \in DOMAIN delivered :
        /\ Typed(delivered[i])
        /\ delivered[i].data > f
        /\ FrameOf(delivered[i].data).conn = FrameOf(f).conn
        /\ reader = FrameOf(f).conn

\* ------------------------------------------------------------------------
\* C10. With an Authenticator, Renew() is invoked exactly once for every
\* auth_revoked frame the Subscription decodes, and before the producer
\* closes the transport or opens a new one for that frame.
\* ------------------------------------------------------------------------
DecodedRevoked ==
  { f \in DecodedIds : FrameOf(f).shape = "ok" /\ FrameOf(f).kind = "auth_revoked" }

C10_RenewOncePerRevoked ==
  reference.auth # "none" =>
    /\ \A f \in DecodedRevoked :
          RenewCount(f) = IF ppc = "renew" /\ ev.data = f THEN 0 ELSE 1
    /\ \A i \in DOMAIN renewed : renewed[i].id \in DecodedRevoked
    /\ ppc \in {"closeOld", "open"} => RenewCount(ev.data) = 1
    /\ \A i \in DOMAIN reopened : RenewCount(reopened[i].id) = 1

C10_Witness ==
  /\ reference.auth # "none"
  /\ Cardinality(DecodedRevoked) >= 2
  /\ Reconnected # {}
  /\ RenewFailed # {}
  /\ ppc = "read"

C12_KeepAliveFilter ==
  /\ ~reference.passKeepAlive =>
        \A i \in DOMAIN Pipeline : Pipeline[i].Type # "keep-alive"
  /\ reference.passKeepAlive =>
        \A g \in DecodedIds :
           (FrameOf(g).shape = "ok" /\ FrameOf(g).kind = "keep-alive")
              => g \in TypedIds(Pipeline)
  /\ InOrder

C12_Witness ==
  /\ ~reference.passKeepAlive
  /\ Len(written) >= 2
  /\ written[1].shape = "ok" /\ written[1].kind = "keep-alive"
  /\ delivered = << Event("put", 2, NoErr) >>

\* ------------------------------------------------------------------------
\* The frame the decoder has in hand when it reads an empty line
\* ------------------------------------------------------------------------
\* The producer reads an empty line: the lines before it make a frame.
FrameEnds == ppc = "read" /\ decoded' # decoded

\* Two non-blank lines, the first an event: line, the second a data: line.
WellFormed(pl, n) ==
  /\ n = 2
  /\ HasPrefix(pl[1], "event:")
  /\ HasPrefix(pl[2], "data:")

\* ------------------------------------------------------------------------
\* C13. Every well-formed keep-alive frame sets LastKeepAlive, with or
\* without pass-through, and no other frame, malformed ones included,
\* changes it. The code also takes a keep-alive frame with lines after
\* its data: line for a keep-alive.
\* ------------------------------------------------------------------------
C13_OnlyKeepAliveStamps ==
  [][IF FrameEnds /\ WellFormed(payload, nonBlank) /\ payload[1].kind = "keep-alive"
     THEN LastKeepAlive' = now'
     ELSE LastKeepAlive' = LastKeepAlive]_vars

\* ------------------------------------------------------------------------
\* C14. A frame that violates the two-line structure yields exactly one
\* Event with an error; the producer goes on and the transport stays open.
\* The code yields an Event without error, or none, for a frame of more
\* than two lines.
\* ------------------------------------------------------------------------
C14_MalformedYieldsOneError ==
  [][(FrameEnds /\ ~WellFormed(payload, nonBlank)) =>
        /\ ppc' = "send"
        /\ ev'.Err # NoErr
        /\ Len(Pipeline') = Len(Pipeline) + 1
        /\ UNCHANGED << open, reader >>]_vars

\* ------------------------------------------------------------------------
\* C15. What the decoder yields on a blank line is an error exactly when
\* the lines before it violate the frame shape: a first line without
\* event:, a second line without data:, or a number of non-blank lines
\* other than two. The code stops counting at two lines.
\* ------------------------------------------------------------------------
C15_ErrorIffViolation ==
  ppc = "send" => (ev.Err = NoErr <=> WellFormed(payload, nonBlank))

\* ------------------------------------------------------------------------
\* C16. When the open fails in Subscribe() there is no Subscription: no
\* producer, no dispatch loop, no Event, one open attempt, and no response
\* body left open.
\* ------------------------------------------------------------------------
C16_FailedSubscribe ==
  sub = "failed" =>
    /\ reader = Nil
    /\ ppc = "idle"
    /\ dpc = "idle"
    /\ open = {}
    /\ Pipeline = << >>
    /\ ~eventsClosed
    /\ openAttempts = 1

C16_Witness == sub = "failed" /\ openAttempts = 1 /\ nConn = 0

\* ------------------------------------------------------------------------
\* C17. A transport failure during an active stream (the read fails, or the
\* server has closed the connection and everything was read) ends the
\* producer; the dispatch loop then closes the output sequence, after
\* which nothing is delivered.
\* ------------------------------------------------------------------------
TransportFailed ==
  /\ sub = "open"
  /\ reader # Nil
  /\ ppc = "read"
  /\ r.buf = << >>
  /\ \/ r.conn \notin open
     \/ r.conn \in srvClosed /\ wire[r.conn] = << >>

C17_FailureEndsOutput ==
  /\ TransportFailed ~> eventsClosed
  /\ [](eventsClosed => ppc = "done")
  /\ [][eventsClosed => delivered' = delivered]_vars

C17_Witness ==
  /\ eventsClosed
  /\ ppc = "done"
  /\ closeCalls = 0
  /\ srvClosed # {}
  /\ delivered # << >>
  /\ ~panicked

\* ------------------------------------------------------------------------
\* C18. Close() returns what closing the transport reported: nil for a
\* normal shutdown, the transport's error otherwise.
\* ------------------------------------------------------------------------
C18_CloseReturnsTransportResult == lastClose.ret = lastClose.reader

C18_Witness ==
  /\ closeCalls > 0
  /\ lastClose.reader = ErrClose
  /\ lastClose.ret = ErrClose

\* ------------------------------------------------------------------------
\* C19. Only the producer reads, closes or replaces the transport, and only
\* the dispatch loop changes the pending queue. In the code Close() closes
\* s.reader from the caller's goroutine.
\* ------------------------------------------------------------------------
C19_ExclusiveOwnership ==
  [][/\ (open' # open \/ reader' # reader \/ r' # r) => (Producer \/ Subscribe)
     /\ pending' # pending => (DispatchFetch \/ DispatchDeliver)]_vars

\* ------------------------------------------------------------------------
\* C20. The dispatch loop delivers only from a non-empty pending queue,
\* always its head, which leaves the queue in the step that delivers it;
\* with an empty queue the only steps are taking a new event and the
\* closing signal.
\* ------------------------------------------------------------------------
C20_DeliverHeadOnly ==
  [][/\ delivered' # delivered =>
          /\ pending # << >>
          /\ delivered' = Append(delivered, Head(pending))
          /\ pending' = Tail(pending)
     /\ pending' # pending =>
          \/ /\ pending # << >>
             /\ pending' = Tail(pending)
             /\ delivered' = Append(delivered, Head(pending))
          \/ /\ ppc = "send"
             /\ pending' = Append(pending, ev)
             /\ delivered' = delivered]_vars

C20_Witness == Len(delivered) >= 1 /\ Len(pending) >= 2

\* ------------------------------------------------------------------------
\* C21. The pending queue has no capacity limit: the dispatch loop takes
\* the producer's next event whatever the queue holds and whether or not
\* the consumer receives; with a consumer that has received nothing the
\* queue holds every event forwarded so far, in wire order.
\* ------------------------------------------------------------------------
C21_UnboundedBuffer ==
  /\ (Running /\ ppc = "send") => ENABLED DispatchFetch
  /\ delivered = << >> =>
        /\ pending = forwarded
        /\ \A g \in DecodedIds :
              (Deliverable(g) /\ ~InHand(g)) => g \in TypedIds(Pipeline)
        /\ \A i, j \in DOMAIN pending :
              (i < j /\ Typed(pending[i]) /\ Typed(pending[j]))
                 => pending[i].data < pending[j].data

C21_Witness ==
  /\ delivered = << >>
  /\ ~consumerDone
  /\ Len(pending) = MaxFrames
  /\ \A i \in DOMAIN pending : pending[i] = Event("put", i, NoErr)

\* ------------------------------------------------------------------------
\* C22. A second Close() on the same Subscription returns like the first:
\* it does not panic and the output sequence is not closed again. In the
\* code s.reader is nil after a re-open that failed, and Close() then
\* dereferences it.
\* ------------------------------------------------------------------------
C22_CloseRepeatable ==
  [][(closeCalls >= 1 /\ Close) =>
        /\ closeCalls' = closeCalls + 1
        /\ ~panicked'
        /\ eventsClosed' = eventsClosed]_vars

\* ------------------------------------------------------------------------
\* C23. With the static Secret, Renew() always fails and the token stays
\* what it was; every auth_revoked frame is forwarded with that error, and
\* no transport is closed or opened for it.
\* ------------------------------------------------------------------------
C23_SecretNeverRenews ==
  reference.auth = "Secret" =>
    /\ token = 0
    /\ \A i \in DOMAIN renewed : renewed[i].err = ErrStatic
    /\ reopened = << >>
    /\ Len(requests) <= 1
    /\ ppc \notin {"closeOld", "open"}
    /\ closeCalls = 0 => (open = {} \/ open = {1})
    /\ \A g \in DecodedRevoked :
          ~(ppc = "renew" /\ ev.data = g) =>
             \E i \in DOMAIN Pipeline :
                Pipeline[i] = Event("auth_revoked", g, ErrStatic)

C23_Witness ==
  /\ reference.auth = "Secret"
  /\ \E i, j \in DOMAIN delivered :
        /\ i < j
        /\ delivered[i].Type = "auth_revoked"
        /\ delivered[i].Err = ErrStatic
        /\ delivered[j].Type = "put"
  /\ open = {1}

\* ------------------------------------------------------------------------
\* C24. Every open of a Subscription asks for the location of its
\* Reference with the credential the Authenticator holds at that moment:
\* after the k-th successful Renew() the re-open carries the k-th new
\* token; and the frames decoded from the new transport are forwarded.
\* ------------------------------------------------------------------------
C24_ReopenWithFreshCredential ==
  /\ \A i \in DOMAIN requests :
        /\ requests[i].req.url = reference.url
        /\ requests[i].req.auth =
              IF reference.auth = "none" THEN "none" ELSE i - 1
  /\ Len(requests) = openAttempts
  /\ \A g \in DecodedIds :
        (FrameOf(g).conn > 1 /\ Deliverable(g) /\ ~InHand(g))
           => g \in TypedIds(Pipeline)

C24_Witness ==
  /\ Len(requests) >= 2
  /\ requests[2].ok
  /\ requests[2].req = [url |-> "live", auth |-> 1]
  /\ \E i \in DOMAIN delivered :
        Typed(delivered[i]) /\ FrameOf(delivered[i].data).conn = 2

\* ------------------------------------------------------------------------
\* C25. Each of several Subscriptions delivers every event framed on its
\* own transport exactly once and in order, whatever happens to the
\* others. Stated for one of them, which is never closed by its caller,
\* once its stream has ended. The code can end the output with events
\* still pending.
\* ------------------------------------------------------------------------
C25_EachDeliversAll ==
  (eventsClosed /\ closeCalls = 0) =>
     /\ \A g \in DecodedIds :
           Deliverable(g) =>
              Cardinality({ i \in DOMAIN delivered :
                              Typed(delivered[i]) /\ delivered[i].data = g }) = 1
     /\ InOrder

\* ------------------------------------------------------------------------
\* C26. PassKeepAlive(v) and Retry(v) return a Reference that has the flag
\* v and is otherwise the receiver, which they leave as it was, along any
\* chain of calls; the Subscription has the Reference it was made from,
\* whatever the caller builds afterwards.
\* ------------------------------------------------------------------------
C26_SettersCopy ==
  /\ [][\A i \in DOMAIN refs : refs'[i] = refs[i]]_vars
  /\ [](\A i \in DOMAIN refs :
          /\ refs[i].op = "PassKeepAlive" =>
                /\ refs[i].val.passKeepAlive = refs[i].arg
                /\ refs[i].val.retry = refs[refs[i].from].val.retry
          /\ refs[i].op = "Retry" =>
                /\ refs[i].val.retry = refs[i].arg
                /\ refs[i].val.passKeepAlive = refs[refs[i].from].val.passKeepAlive
          /\ refs[i].val.auth = NewReference.auth
          /\ refs[i].val.url = NewReference.url)
  /\ [][(sub = "new" /\ sub' # "new") =>
           \E i \in DOMAIN refs : reference' = refs[i].val]_vars
  /\ [][sub # "new" => reference' = reference]_vars

C26_Witness ==
  /\ Len(refs) = 4
  /\ refs[2].op = "PassKeepAlive" /\ refs[2].from = 1 /\ refs[2].arg
  /\ refs[3].op = "PassKeepAlive" /\ refs[3].from = 2 /\ ~refs[3].arg
  /\ refs[4].op = "Retry" /\ refs[4].from = 2 /\ refs[4].arg
  /\ sub = "open"
  /\ reference = refs[2].val

\* ------------------------------------------------------------------------
\* C27. What the consumer has received is a prefix of what the producer
\* forwarded to the dispatch loop, and the queue holds the rest: nothing
\* is reordered, duplicated or skipped.
\* ------------------------------------------------------------------------
C27_DeliveredPrefixOfForwarded ==
  /\ Len(delivered) <= Len(forwarded)
  /\ delivered = SubSeq(forwarded, 1, Len(delivered))
  /\ pending = SubSeq(forwarded, Len(delivered) + 1, Len(forwarded))

C27_Witness ==
  /\ Len(delivered) = 2
  /\ Len(forwarded) = 3
  /\ \E i \in DOMAIN forwarded : forwarded[i].Err # NoErr
  /\ \E i \in DOMAIN forwarded : forwarded[i].Type = "keep-alive"

\* ------------------------------------------------------------------------
\* C28. The dispatch loop never sends on the output channel once it has
\* closed it. In the code the loop goes on after close(s.events), and with
\* events pending its select sends on the closed channel.
\* ------------------------------------------------------------------------
C28_NoSendOnClosed == [][~DispatchSendOnClosed]_vars

\* ------------------------------------------------------------------------
\* C29. No event is lost at the end of the stream: the output sequence is
\* ended only when the pending queue is empty. In the code the closing
\* case is taken whatever the queue holds.
\* ------------------------------------------------------------------------
C29_ClosedOnlyWhenEmpty ==
  [][(~eventsClosed /\ eventsClosed') => pending = << >>]_vars

\* ------------------------------------------------------------------------
\* C30. After a Close() that was called while the producer was handling an
\* auth_revoked frame, no transport of the Subscription is open. In the
\* code the producer goes on with the reconnect and opens a new one.
\* ------------------------------------------------------------------------
C30_CloseDuringReconnect ==
  (closeCalls = 1 /\ lastClose.inReconnect) => open = {}

\* ------------------------------------------------------------------------
\* C31. An existing Subscription always holds a valid transport handle, so
\* that Close() can be called at any time. In the code a re-open that fails
\* stores nil in s.reader.
\* ------------------------------------------------------------------------
C31_ReaderValid == sub = "open" => reader # Nil

\* ------------------------------------------------------------------------
\* C32. After a Renew() that succeeded and a re-open that failed, the old
\* transport is closed and the producer's next read fails: the producer
\* ends. In the code the producer keeps its bufio.Reader, and the lines it
\* had buffered are still read and decoded.
\* ------------------------------------------------------------------------
C32_ReadFailsAfterFailedReopen ==
  [][(ProducerRead /\ reader = Nil) => ppc' = "closing"]_vars

\* ------------------------------------------------------------------------
\* C33. Without an Authenticator an auth_revoked frame is handed on as an
\* Event of kind auth_revoked without error: Renew() is not called, no
\* transport is closed or opened for it, and the producer goes on reading
\* from the transport of Subscribe().
\* ------------------------------------------------------------------------
C33_NoAuthForwardsRevoked ==
  reference.auth = "none" =>
    /\ renewed = << >>
    /\ reopened = << >>
    /\ token = 0
    /\ Len(requests) <= 1
    /\ ppc \notin {"renew", "closeOld", "open"}
    /\ r.conn \in {Nil, 1}
    /\ reader \in {Nil, 1}
    /\ closeCalls = 0 => (open = {} \/ open = {1})
    /\ \A g \in DecodedRevoked :
          \E i \in DOMAIN Pipeline : Pipeline[i] = Event("auth_revoked", g, NoErr)

C33_Witness ==
  /\ reference.auth = "none"
  /\ open = {1}
  /\ ppc = "read"
  /\ \E i, j \in DOMAIN delivered :
        /\ i < j
        /\ delivered[i] = Event("auth_revoked", delivered[i].data, NoErr)
        /\ delivered[j].Type = "put"

\* ------------------------------------------------------------------------
\* C34. After a successful reconnect the producer decodes the new
\* transport only, from an empty buffer and with no line accumulated: what
\* was written on the old transport after the auth_revoked frame is never
\* decoded nor handed on, and every frame decoded later is of a later
\* transport.
\* ------------------------------------------------------------------------
C34_ReconnectStartsClean ==
  /\ [][(ProducerReopen /\ ppc' = "read") =>
          /\ lineCount' = 0
          /\ r'.buf = << >>
          /\ r'.conn = reader'
          /\ r'.conn \notin {Nil, r.conn}
          /\ open' = {reader'}]_vars
  /\ [](\A f \in DOMAIN written :
          CutBefore(f) => (f \notin DecodedIds /\ f \notin TypedIds(Pipeline)))
  /\ [](\A g \in Reconnected : \A f \in DecodedIds :
          f > g => FrameOf(f).conn > FrameOf(g).conn)

C34_Witness ==
  /\ Reconnected # {}
  /\ \E f \in DOMAIN written : CutBefore(f)
  /\ \E i \in DOMAIN delivered, g \in Reconnected :
        /\ Typed(delivered[i])
        /\ delivered[i].data > g
        /\ FrameOf(delivered[i].data).conn = reader

\* ------------------------------------------------------------------------
\* C35. A well-formed frame of kind cancel, or of any kind other than
\* keep-alive and auth_revoked, is handed on as an ordinary Event without
\* error; the transport and the output stay as they are, and once the
\* Event is taken the producer reads on.
\* ------------------------------------------------------------------------
C35_OtherKindsAreOrdinary ==
  /\ [][(/\ FrameEnds
          /\ WellFormed(payload, nonBlank)
          /\ payload[1].kind \notin {"keep-alive", "auth_revoked"}) =>
            /\ ppc' = "send"
            /\ ev' = Event(payload[1].kind, payload[2].id, NoErr)
            /\ UNCHANGED << open, reader, eventsClosed, panicked >>
            /\ r'.conn = r.conn]_vars
  /\ [][(ppc = "send" /\ ppc' # "send") =>
            /\ ppc' = "read"
            /\ pending' = Append(pending, ev)
            /\ UNCHANGED << open, reader, eventsClosed, panicked, r >>]_vars

C35_Witness ==
  /\ delivered = << Event("cancel", 1, NoErr) >>
  /\ ppc = "read"
  /\ lineCount = 1
  /\ open = {1}
  /\ ~eventsClosed

\* ------------------------------------------------------------------------
\* C36. The output sequence is closed at most once, and only when the
\* producer has left its read loop: the producer offers the closing signal
\* once, as its last act, and hands no Event to the dispatch loop after it.
\* ------------------------------------------------------------------------
C36_ClosedOnceAfterLoop ==
  /\ [](eventsClosed => ppc = "done")
  /\ [][DispatchClosing => (~eventsClosed /\ eventsClosed' /\ ~panicked')]_vars
  /\ [][(~eventsClosed /\ eventsClosed') => (ppc = "closing" /\ DispatchClosing)]_vars
  /\ [][eventsClosed => eventsClosed']_vars
  /\ [][(ppc \in {"closing", "done"}) =>
          (forwarded' = forwarded /\ ppc' \in {"closing", "done"})]_vars
  /\ [][ppc = "done" => ppc' = "done"]_vars

C36_Witness ==
  /\ eventsClosed
  /\ ppc = "done"
  /\ ~panicked
  /\ Len(forwarded) >= 2
  /\ Reconnected # {}

\* ------------------------------------------------------------------------
\* C37. A blank line read while no line is accumulated yields one Event
\* with the error "Badly formated body"; it is not ignored, and the
\* well-formed frame after it is decoded as usual.
\* ------------------------------------------------------------------------
C37_EmptyFrameIsError ==
  /\ [][(FrameEnds /\ nonBlank = 0) =>
            /\ lineCount = 0
            /\ ppc' = "send"
            /\ ev' = ErrEvent(ErrBody)
            /\ lineCount' = 0
            /\ UNCHANGED << open, reader, eventsClosed, LastKeepAlive >>]_vars
  /\ [][(ppc = "send" /\ ev = ErrEvent(ErrBody) /\ ppc' # "send") =>
            /\ ppc' = "read"
            /\ lineCount' = 0
            /\ nonBlank' = 0
            /\ pending' = Append(pending, ev)]_vars

C37_Witness ==
  /\ delivered = << ErrEvent(ErrBody), Event("put", 1, NoErr) >>
  /\ Len(decoded) = 2
  /\ ppc = "read"

\* ------------------------------------------------------------------------
\* C38. When the input ends in the middle of a frame, the lines of the
\* partial frame yield no Event, neither a normal one nor an error: the
\* failed read ends the read loop whatever is accumulated, Events come from
\* blank lines only, and the closing signal ends the output.
\* ------------------------------------------------------------------------
C38_PartialFrameYieldsNothing ==
  /\ [][(TransportFailed /\ ProducerRead) =>
          /\ ppc' = "closing"
          /\ ev' = NoEvent
          /\ UNCHANGED << forwarded, pending, delivered, decoded >>]_vars
  /\ [][(ppc \in {"closing", "done"}) =>
          (forwarded' = forwarded /\ decoded' = decoded)]_vars
  /\ [](Len(Pipeline) <= Len(decoded))
  /\ [](ppc = "closing" => (dpc = "select" /\ ~eventsClosed /\ ~panicked))
  /\ [](ppc = "done" => eventsClosed)

C38_Witness ==
  /\ ppc = "done"
  /\ eventsClosed
  /\ consumerDone
  /\ nonBlank = 1
  /\ lineCount = 1
  /\ delivered = << Event("put", 1, NoErr) >>
  /\ pending = << >>

====
